---- MODULE Spec2Model ----
(***************************************************************************)
(* Session registry and command state machine of the chat server           *)
(* (src/chatServer.js, src/chatHelpers.js, src/chatState.js).              *)
(*                                                                         *)
(* A JavaScript string is modelled as the sequence of its space-separated  *)
(* tokens, i.e. the value of str.split(' '): "" is <<"">>, "/mute Bob" is  *)
(* <<"/mute", "Bob">>, " Alice" is <<"", "Alice">>.  No string splits into *)
(* the empty sequence, so <<>> stands for undefined / null.                *)
(*                                                                         *)
(* Every handler is synchronous JavaScript and runs to completion, so one  *)
(* action is one handler invocation.  The variables sent, logged,          *)
(* closeCalls, threw, touched and call describe the most recent invocation *)
(* only: the frames it handed to socket.send, the lines it handed to the   *)
(* log stream, the sockets it called close() on, whether it ended by an    *)
(* exception, the sessions whose lastSeen it refreshed, and which entry    *)
(* point ran with which arguments.                                         *)
(*                                                                         *)
(* An exception leaves the handler at the throwing statement; what the     *)
(* handler wrote to chatState before it stays written.  The model follows  *)
(* the server on from there.                                               *)
(*                                                                         *)
(* lastSeen is a Date that no branch of the code reads.  The model keeps   *)
(* which sessions had it assigned by updateUserLastSeen (touched) and      *)
(* writes the marker "lastSeen" where a payload embeds the date.           *)
(*                                                                         *)
(* handleMessage and handleDisconnection are driven by the socket events   *)
(* wired in handleNewConnection; processChatMessage is an entry point of   *)
(* the module in its own right (module.exports, src/chatServer.js:232) and *)
(* is also driven directly on a registered socket.  The model follows      *)
(* lines 1-232 of src/chatServer.js; the closure-based variant below them  *)
(* is not modelled.                                                        *)
(***************************************************************************)
EXTENDS Integers, Sequences, FiniteSets, TLC

\* ---------------------------------------------------------------- bounds
NumSockets == 2

Sockets == 1..NumSockets
Null == 0
Undefined == <<>>

\* ------------------------------------------------------- input alphabet
\* Lines a connection sends before it has been welcomed.
NickLines ==
    { <<"Alice">>, <<"Bob">>, <<"", "Alice">>, <<"">> }

\* Lines a connection sends once it has been welcomed.
WelcomedLines ==
    { <<"hi">>, <<"/admin", "pw">>, <<"/admin", "bad">>, <<"/mute", "Bob">> }

\* Lines handed to the dispatcher for a connection that holds a nickname.
ChatLines ==
    { <<"hi">>, <<"exit">>, <<"/list">>, <<"TYPING:">>, <<"/lastseen">>,
      <<"/admin", "pw">>, <<"/admin", "bad">>,
      <<"/kick", "Bob">>, <<"/mute", "Bob">>, <<"/unmute", "Bob">>,
      <<"/msg", "Bob", "hi">> }

VARIABLES
    clients,        \* chatState.clients: Map socket => {nickname}, in insertion order
    muted,          \* chatState.muted: Set of nicknames
    adminSocket,    \* chatState.adminSocket: a socket or null
    ADMIN_PASSWORD, \* chatState.ADMIN_PASSWORD
    readyState,     \* socket.readyState; "NONE" before the connection exists
    touched,        \* sockets whose lastSeen updateUserLastSeen assigned in the last handler
    sent,           \* frames handed to socket.send by the last handler, per socket
    logged,         \* lines handed to logMessage by the last handler
    closeCalls,     \* sockets the last handler called close() on
    threw,          \* the last handler ended by an uncaught exception
    call            \* the last handler: entry point, socket, line

vars == << clients, muted, adminSocket, ADMIN_PASSWORD, readyState,
           sent, logged, closeCalls, threw, touched, call >>

\* ---------------------------------------------------------- JS strings
Truthy(str) == str # Undefined /\ str # <<"">>

RECURSIVE TrimStart(_)
TrimStart(s) ==
    IF Len(s) > 1 /\ Head(s) = "" THEN TrimStart(Tail(s)) ELSE s

RECURSIVE TrimEnd(_)
TrimEnd(s) ==
    IF Len(s) > 1 /\ s[Len(s)] = "" THEN TrimEnd(SubSeq(s, 1, Len(s) - 1)) ELSE s

\* String.prototype.trim on a string without tabs or newlines
Trim(s) == TrimEnd(TrimStart(s))

LowerToken(t) ==
    CASE t = "EXIT" -> "exit"
      [] t = "Exit" -> "exit"
      [] t = "TYPING:" -> "typing:"
      [] t = "/LIST" -> "/list"
      [] t = "/MUTE" -> "/mute"
      [] t = "Alice" -> "alice"
      [] t = "Bob" -> "bob"
      [] OTHER -> t

\* String.prototype.toLowerCase
ToLowerCase(s) == [i \in 1..Len(s) |-> LowerToken(s[i])]

\* parts[i] of a JavaScript array (0-based), undefined past the end
Part(parts, i) == IF i + 1 <= Len(parts) THEN <<parts[i + 1]>> ELSE Undefined

\* parts.slice(2).join(' ')
SliceJoin(parts) ==
    IF Len(parts) > 2 THEN SubSeq(parts, 3, Len(parts)) ELSE <<"">>

\* ---------------------------------------------------------------- frames
Frame(kind, a, b, users) ==
    [kind |-> kind, a |-> a, b |-> b, users |-> users]

Text(kind) == Frame(kind, Undefined, Undefined, <<>>)
Text1(kind, a) == Frame(kind, a, Undefined, <<>>)
Text2(kind, a, b) == Frame(kind, a, b, <<>>)

\* ------------------------------------------------- handler-local state
\* The record a handler threads through its statements.
Start ==
    [ clients |-> clients, muted |-> muted, adminSocket |-> adminSocket,
      readyState |-> readyState,
      sent |-> [s \in Sockets |-> <<>>], logged |-> <<>>,
      closeCalls |-> {}, threw |-> FALSE, touched |-> <<>> ]

\* wss.clients: the server's set of sockets, left by a socket when it closes
WssClients(st) == { s \in Sockets : st.readyState[s] \in {"OPEN", "CLOSING"} }

\* socket.send(frame)
Send(st, socket, frame) ==
    IF st.threw THEN st
    ELSE [st EXCEPT !.sent[socket] = Append(@, frame)]

\* socket.close()
Close(st, socket) ==
    IF st.threw THEN st
    ELSE [st EXCEPT !.closeCalls = @ \cup {socket},
                    !.readyState[socket] = IF @ = "OPEN" THEN "CLOSING" ELSE @]

\* TypeError: Cannot read properties of undefined
Throw(st) == [st EXCEPT !.threw = TRUE]

\* chatState.clients.has / get
Has(cl, socket) == \E i \in 1..Len(cl) : cl[i].socket = socket
Get(cl, socket) == cl[CHOOSE i \in 1..Len(cl) : cl[i].socket = socket]

\* chatState.clients.set: a new key is appended, an existing key keeps its place
MapSet(cl, socket, info) ==
    IF Has(cl, socket)
    THEN [i \in 1..Len(cl) |-> IF cl[i].socket = socket THEN info ELSE cl[i]]
    ELSE Append(cl, info)

\* chatState.clients.delete
MapDelete(cl, socket) == SelectSeq(cl, LAMBDA e : e.socket # socket)

\* [...clients.entries()].find(([_, clientInfo]) => clientInfo.nickname === target)
Find(cl, target) ==
    IF \E i \in 1..Len(cl) : cl[i].nickname = target
    THEN cl[CHOOSE i \in 1..Len(cl) :
              /\ cl[i].nickname = target
              /\ \A j \in 1..(i - 1) : cl[j].nickname # target].socket
    ELSE Null

\* one element of a '/list', '/lastseen' or roster payload
UserEntry(nickname, status) == [nickname |-> nickname, status |-> status]

\* ----------------------------------------------------------- chatHelpers
\* broadcast that forgets the excluded socket
BroadcastAll(st, message, except) ==
    IF st.threw THEN st
    ELSE [st EXCEPT !.sent =
            [s \in Sockets |->
                IF s \in WssClients(st) /\ st.readyState[s] = "OPEN"
                THEN Append(st.sent[s], message) ELSE st.sent[s]]]

\* broadcast that fails on the first client that is not open
BroadcastOpenOnly(st, message, except) ==
    IF st.threw THEN st
    ELSE IF \E s \in WssClients(st) : st.readyState[s] # "OPEN" THEN Throw(st)
    ELSE [st EXCEPT !.sent =
            [s \in Sockets |->
                IF s \in WssClients(st) /\ s # except
                THEN Append(st.sent[s], message) ELSE st.sent[s]]]

\* broadcast(message, except, wss)
Broadcast(st, message, except) ==
    IF st.threw THEN st
    ELSE [st EXCEPT !.sent =
            [s \in Sockets |->
                IF s \in WssClients(st) /\ st.readyState[s] = "OPEN" /\ s # except
                THEN Append(st.sent[s], message) ELSE st.sent[s]]]

\* broadcastUserList(wss); wssArg is FALSE when the caller passes no wss
BroadcastUserList(st, wssArg) ==
    IF st.threw THEN st
    ELSE LET users == [i \in 1..Len(st.clients) |->
                          UserEntry(st.clients[i].nickname, "lastSeen")]
             userListMessage == Frame("USERS", Undefined, Undefined, users)
         IN  IF ~wssArg THEN Throw(st)
             ELSE [st EXCEPT !.sent =
                     [s \in Sockets |->
                         IF s \in WssClients(st) /\ st.readyState[s] = "OPEN"
                         THEN Append(st.sent[s], userListMessage) ELSE st.sent[s]]]

\* updateUserLastSeen(socket)
UpdateUserLastSeen(st, socket) ==
    IF st.threw THEN st
    ELSE IF Has(st.clients, socket)
         THEN BroadcastUserList([st EXCEPT !.touched = Append(@, socket)], FALSE)
         ELSE st

\* logMessage(msg)
LogMessage(st, msg) ==
    IF st.threw THEN st ELSE [st EXCEPT !.logged = Append(@, msg)]

\* ------------------------------------------------------------ chatServer
\* handleAdminCommand that accepts any password
HandleAdminCommandAnyPassword(st, socket, password) ==
    Send([st EXCEPT !.adminSocket = socket], socket, Text("You are now the admin."))

\* handleAdminCommand that keeps an admin who is already logged in
HandleAdminCommandFirstWins(st, socket, password) ==
    IF password = ADMIN_PASSWORD
    THEN Send([st EXCEPT !.adminSocket = IF @ = Null THEN socket ELSE @],
              socket, Text("You are now the admin."))
    ELSE Send(st, socket, Text("Wrong password."))

\* handleAdminCommand(socket, password)
HandleAdminCommand(st, socket, password) ==
    IF password = ADMIN_PASSWORD
    THEN Send([st EXCEPT !.adminSocket = socket], socket, Text("You are now the admin."))
    ELSE Send(st, socket, Text("Wrong password."))

\* handleKickCommand that removes the target's session itself
HandleKickCommandRemoves(st, socket, targetNickname) ==
    IF socket # st.adminSocket THEN Send(st, socket, Text("Admin only."))
    ELSE LET targetSocket == Find(st.clients, targetNickname)
         IN  IF targetSocket # Null
             THEN [Close(Send(st, targetSocket, Text("You have been kicked.")), targetSocket)
                     EXCEPT !.clients = MapDelete(@, targetSocket)]
             ELSE Send(st, socket, Text("User not found."))

\* handleKickCommand that announces a failed kick to everyone
HandleKickCommandAnnounce(st, socket, targetNickname) ==
    IF socket # st.adminSocket THEN Send(st, socket, Text("Admin only."))
    ELSE LET targetSocket == Find(st.clients, targetNickname)
         IN  IF targetSocket # Null
             THEN Close(Send(st, targetSocket, Text("You have been kicked.")), targetSocket)
             ELSE Broadcast(st, Text("User not found."), Null)

\* handleKickCommand(socket, targetNickname, wss)
HandleKickCommand(st, socket, targetNickname) ==
    IF socket # st.adminSocket THEN Send(st, socket, Text("Admin only."))
    ELSE LET targetSocket == Find(st.clients, targetNickname)
         IN  IF targetSocket # Null
             THEN Close(Send(st, targetSocket, Text("You have been kicked.")), targetSocket)
             ELSE Send(st, socket, Text("User not found."))

\* handleMuteCommand without the admin check
HandleMuteCommandUnguarded(st, socket, targetNickname) ==
    Broadcast([st EXCEPT !.muted = @ \cup {targetNickname}],
              Text1("has been muted.", targetNickname), socket)

\* handleMuteCommand that only mutes a nickname some session holds
HandleMuteCommandHeldOnly(st, socket, targetNickname) ==
    IF socket # st.adminSocket THEN Send(st, socket, Text("Admin only."))
    ELSE IF Find(st.clients, targetNickname) = Null
    THEN Send(st, socket, Text("User not found."))
    ELSE Broadcast([st EXCEPT !.muted = @ \cup {targetNickname}],
                   Text1("has been muted.", targetNickname), socket)

\* handleMuteCommand(socket, targetNickname, wss)
HandleMuteCommand(st, socket, targetNickname) ==
    IF socket # st.adminSocket THEN Send(st, socket, Text("Admin only."))
    ELSE Broadcast([st EXCEPT !.muted = @ \cup {targetNickname}],
                   Text1("has been muted.", targetNickname), socket)

\* handleUnmuteCommand that treats a nickname that is not muted as an error
HandleUnmuteCommandStrict(st, socket, targetNickname) ==
    IF socket # st.adminSocket THEN Send(st, socket, Text("Admin only."))
    ELSE IF targetNickname \notin st.muted
    THEN Send(st, socket, Text("User not found."))
    ELSE Broadcast([st EXCEPT !.muted = @ \ {targetNickname}],
                   Text1("has been unmuted.", targetNickname), socket)

\* handleUnmuteCommand(socket, targetNickname, wss)
HandleUnmuteCommand(st, socket, targetNickname) ==
    IF socket # st.adminSocket THEN Send(st, socket, Text("Admin only."))
    ELSE Broadcast([st EXCEPT !.muted = @ \ {targetNickname}],
                   Text1("has been unmuted.", targetNickname), socket)

\* handlePrivateMessage that sends the private line with broadcast
HandlePrivateMessageBroadcast(st, socket, senderNickname, parts) ==
    LET target == Part(parts, 1)
        text == SliceJoin(parts)
        targetSocket == Find(st.clients, target)
        formatted == Text2("[Private]", senderNickname, text)
    IN  IF targetSocket # Null
        THEN LogMessage(Send(Broadcast(st, formatted, socket),
                             socket, Text2("(to", target, text)),
                        formatted)
        ELSE Send(st, socket, Text("User not found."))

\* handlePrivateMessage that applies the mute filter to private messages
HandlePrivateMessageMuted(st, socket, senderNickname, parts) ==
    LET target == Part(parts, 1)
        text == SliceJoin(parts)
        targetSocket == Find(st.clients, target)
        formatted == Text2("[Private]", senderNickname, text)
    IN  IF senderNickname \in st.muted THEN Send(st, socket, Text("You are muted."))
        ELSE IF targetSocket # Null
        THEN LogMessage(Send(Send(st, targetSocket, formatted),
                             socket, Text2("(to", target, text)),
                        formatted)
        ELSE Send(st, socket, Text("User not found."))

\* handlePrivateMessage(socket, senderNickname, parts, wss)
HandlePrivateMessage(st, socket, senderNickname, parts) ==
    LET target == Part(parts, 1)
        text == SliceJoin(parts)
        targetSocket == Find(st.clients, target)
        formatted == Text2("[Private]", senderNickname, text)
    IN  IF targetSocket # Null
        THEN LogMessage(Send(Send(st, targetSocket, formatted),
                             socket, Text2("(to", target, text)),
                        formatted)
        ELSE Send(st, socket, Text("User not found."))

\* /lastseen that reports every entry of the registry as Online
HandleLastSeenCommandAllOnline(st, socket) ==
    LET cl == st.clients
        lines == [i \in 1..Len(cl) |-> UserEntry(cl[i].nickname, "Online")]
    IN  Send(st, socket, Frame("Last seen:", Undefined, Undefined, lines))

\* handleLastSeenCommand(socket)
HandleLastSeenCommand(st, socket) ==
    LET cl == st.clients
        lines == [i \in 1..Len(cl) |->
                    IF st.readyState[cl[i].socket] = "OPEN"
                    THEN UserEntry(cl[i].nickname, "Online")
                    ELSE UserEntry(cl[i].nickname, "Last seen: lastSeen")]
    IN  Send(st, socket, Frame("Last seen:", Undefined, Undefined, lines))

\* typing case that sends the notice with broadcast
TypingCaseBroadcast(st, socket, nickname) ==
    Broadcast(st, Text1("[TYPING]", nickname), socket)

\* processChatMessage, case 'typing:'
TypingCase(st, socket, nickname) ==
    [st EXCEPT !.sent =
        [s \in Sockets |->
            IF Has(st.clients, s) /\ s # socket /\ st.readyState[s] = "OPEN"
            THEN Append(st.sent[s], Text1("[TYPING]", nickname)) ELSE st.sent[s]]]

\* default case that logs the raw line instead of the formatted one
DefaultCaseLogsRaw(st, socket, nickname, msg) ==
    IF nickname \in st.muted
    THEN Send(st, socket, Text("You are muted."))
    ELSE LET formattedMessage == Text2("--", nickname, msg)
         IN  LogMessage(Broadcast(st, formattedMessage, socket), Text1("raw", msg))

\* default case that does not consult the mute registry
DefaultCaseUnmuted(st, socket, nickname, msg) ==
    LET formattedMessage == Text2("--", nickname, msg)
    IN  LogMessage(Broadcast(st, formattedMessage, socket), formattedMessage)

\* processChatMessage, default case: a regular chat message
DefaultCase(st, socket, nickname, msg) ==
    IF nickname \in st.muted
    THEN Send(st, socket, Text("You are muted."))
    ELSE LET formattedMessage == Text2("--", nickname, msg)
         IN  LogMessage(Broadcast(st, formattedMessage, socket), formattedMessage)

\* processChatMessage that matches whole lines and prefixes with their trailing
\* space instead of the lower-cased first word
ProcessChatMessageWholeLine(st, socket, nickname, msg) ==
    LET parts == msg
        prefix(c) == parts[1] = c /\ Len(parts) >= 2
    IN  IF st.threw THEN st
        ELSE IF ToLowerCase(msg) = <<"exit">> THEN Close(st, socket)
        ELSE CASE msg = <<"/list">> ->
                    Send(st, socket,
                         Frame("Online:", Undefined, Undefined,
                               [i \in 1..Len(st.clients) |->
                                   UserEntry(st.clients[i].nickname, "")]))
               [] ToLowerCase(msg) = <<"typing:">> -> TypingCase(st, socket, nickname)
               [] prefix("/admin") -> HandleAdminCommand(st, socket, Part(parts, 1))
               [] prefix("/kick") -> HandleKickCommand(st, socket, Part(parts, 1))
               [] prefix("/mute") -> HandleMuteCommand(st, socket, Part(parts, 1))
               [] prefix("/unmute") -> HandleUnmuteCommand(st, socket, Part(parts, 1))
               [] prefix("/msg") -> HandlePrivateMessage(st, socket, nickname, parts)
               [] msg = <<"/lastseen">> -> HandleLastSeenCommand(st, socket)
               [] OTHER -> DefaultCase(st, socket, nickname, msg)

\* processChatMessage(socket, nickname, msg, wss)
ProcessChatMessage(st, socket, nickname, msg) ==
    LET parts == msg
        command == LowerToken(parts[1])
    IN  IF st.threw THEN st
        ELSE IF ToLowerCase(msg) = <<"exit">> THEN Close(st, socket)
        ELSE CASE command = "/list" ->
                    Send(st, socket,
                         Frame("Online:", Undefined, Undefined,
                               [i \in 1..Len(st.clients) |->
                                   UserEntry(st.clients[i].nickname, "")]))
               [] command = "typing:" -> TypingCase(st, socket, nickname)
               [] command = "/admin" -> HandleAdminCommand(st, socket, Part(parts, 1))
               [] command = "/kick" -> HandleKickCommand(st, socket, Part(parts, 1))
               [] command = "/mute" -> HandleMuteCommand(st, socket, Part(parts, 1))
               [] command = "/unmute" -> HandleUnmuteCommand(st, socket, Part(parts, 1))
               [] command = "/msg" -> HandlePrivateMessage(st, socket, nickname, parts)
               [] command = "/lastseen" -> HandleLastSeenCommand(st, socket)
               [] OTHER -> DefaultCase(st, socket, nickname, msg)

\* socket.tempNickname: null from handleNewConnection on, deleted by a claim
TempNickname(socket) == Undefined

\* [...clients.values()].includes(msg): an info object never equals a string
NicknameTakenIncludes(cl, msg) == FALSE

\* handleMessage: [...chatState.clients.values()].some(client => client.nickname === msg)
NicknameTaken(cl, msg) == \E i \in 1..Len(cl) : cl[i].nickname = msg

\* handleMessage: the nickname the handler works with
CurrentNickname(cl, socket) ==
    IF Has(cl, socket) THEN Get(cl, socket).nickname ELSE TempNickname(socket)

\* registration that leaves out the updateUserLastSeen call of line 51
RegisterNoTouch(st, socket, nickname) ==
    LET st1 == [st EXCEPT !.clients =
                   MapSet(@, socket, [socket |-> socket, nickname |-> nickname])]
        st2 == Send(st1, socket, Text1("Welcome", nickname))
        st3 == Broadcast(st2, Text1("joined the chat", nickname), socket)
    IN  BroadcastUserList(st3, TRUE)

\* registration that publishes the roster before it stores the session
RegisterPublishFirst(st, socket, nickname) ==
    LET st0 == BroadcastUserList(st, TRUE)
        st1 == [st0 EXCEPT !.clients =
                   MapSet(@, socket, [socket |-> socket, nickname |-> nickname])]
        st2 == Send(st1, socket, Text1("Welcome", nickname))
        st3 == Broadcast(st2, Text1("joined the chat", nickname), socket)
    IN  UpdateUserLastSeen(st3, socket)

\* the registration a claim performs once the nickname is known to be free
Register(st, socket, nickname) ==
    LET st1 == [st EXCEPT !.clients =
                   MapSet(@, socket, [socket |-> socket, nickname |-> nickname])]
        st2 == Send(st1, socket, Text1("Welcome", nickname))
        st3 == Broadcast(st2, Text1("joined the chat", nickname), socket)
        st4 == BroadcastUserList(st3, TRUE)
    IN  UpdateUserLastSeen(st4, socket)

\* first-message branch without the return after 'Nickname taken'
ClaimNicknameNoReturn(st, socket, msg) ==
    IF NicknameTaken(st.clients, msg)
    THEN Register(Send(st, socket, Text("Nickname taken. Try another:")), socket, msg)
    ELSE Register(st, socket, msg)

\* first-message branch that stores the session before it checks the nickname
ClaimNicknameSetFirst(st, socket, msg) ==
    LET st1 == [st EXCEPT !.clients =
                   MapSet(@, socket, [socket |-> socket, nickname |-> msg])]
    IN  IF NicknameTaken(st1.clients, msg)
        THEN Send(st1, socket, Text("Nickname taken. Try another:"))
        ELSE Register(st, socket, msg)

\* handleMessage: the first-message branch, taken while !nickname
ClaimNickname(st, socket, msg) ==
    IF NicknameTaken(st.clients, msg)
    THEN Send(st, socket, Text("Nickname taken. Try another:"))
    ELSE Register(st, socket, msg)

\* handleMessage that takes a line starting with '/' or 'exit' from a connection
\* without a nickname to the dispatcher
HandleMessageCommandsFirst(st, socket, raw) ==
    LET msg == Trim(raw)
        nickname == CurrentNickname(st.clients, socket)
    IN  IF ~Truthy(nickname)
        THEN IF LowerToken(msg[1]) \in {"/admin", "/mute", "/kick", "/msg", "exit"}
             THEN ProcessChatMessage(st, socket, <<"guest">>, msg)
             ELSE ClaimNickname(st, socket, msg)
        ELSE LET st1 == IF Truthy(nickname) /\ Has(st.clients, socket)
                        THEN UpdateUserLastSeen(st, socket) ELSE st
             IN  ProcessChatMessage(st1, socket, nickname, msg)

\* handleMessage that dispatches a line without touching the sender first
HandleMessageNoTouch(st, socket, raw) ==
    LET msg == Trim(raw)
        nickname == CurrentNickname(st.clients, socket)
    IN  IF ~Truthy(nickname) THEN ClaimNickname(st, socket, msg)
        ELSE ProcessChatMessage(st, socket, nickname, msg)

\* handleMessage(socket, msg, wss)
HandleMessage(st, socket, raw) ==
    LET msg == Trim(raw)
        nickname == CurrentNickname(st.clients, socket)
    IN  IF ~Truthy(nickname) THEN ClaimNickname(st, socket, msg)
        ELSE LET st1 == IF Truthy(nickname) /\ Has(st.clients, socket)
                        THEN UpdateUserLastSeen(st, socket) ELSE st
             IN  ProcessChatMessage(st1, socket, nickname, msg)

\* handleDisconnection that resets the admin slot and the mute registry
\* whoever leaves
HandleDisconnectionResetsAll(st, socket) ==
    LET st1 == UpdateUserLastSeen(st, socket)
        has == Has(st1.clients, socket)
        nickname == IF has /\ Truthy(Get(st1.clients, socket).nickname)
                    THEN Get(st1.clients, socket).nickname
                    ELSE IF Truthy(TempNickname(socket)) THEN TempNickname(socket)
                    ELSE <<"A", "user">>
        st2 == [st1 EXCEPT
                  !.clients = MapDelete(@, socket),
                  !.muted = {},
                  !.adminSocket = Null]
        st3 == Broadcast(st2, Text1("has left the chat.", nickname), Null)
        st4 == BroadcastUserList(st3, TRUE)
    IN  IF st1.threw THEN st1
        ELSE LogMessage(st4, Text1("disconnected.", nickname))

\* handleDisconnection that returns at once for a socket without a session
HandleDisconnectionSilentIfAbsent(st, socket) ==
    LET st1 == UpdateUserLastSeen(st, socket)
        has == Has(st1.clients, socket)
        nickname == IF has /\ Truthy(Get(st1.clients, socket).nickname)
                    THEN Get(st1.clients, socket).nickname
                    ELSE <<"A", "user">>
        st2 == [st1 EXCEPT
                  !.clients = MapDelete(@, socket),
                  !.muted = IF has /\ Get(st1.clients, socket).nickname \in @
                            THEN @ \ {Get(st1.clients, socket).nickname} ELSE @,
                  !.adminSocket = IF socket = @ THEN Null ELSE @]
        st3 == Broadcast(st2, Text1("has left the chat.", nickname), Null)
        st4 == BroadcastUserList(st3, TRUE)
    IN  IF st1.threw THEN st1
        ELSE IF ~has THEN st1
        ELSE LogMessage(st4, Text1("disconnected.", nickname))

\* handleDisconnection(socket, wss)
HandleDisconnection(st, socket) ==
    LET st1 == UpdateUserLastSeen(st, socket)
        has == Has(st1.clients, socket)
        nickname == IF has /\ Truthy(Get(st1.clients, socket).nickname)
                    THEN Get(st1.clients, socket).nickname
                    ELSE IF Truthy(TempNickname(socket)) THEN TempNickname(socket)
                    ELSE <<"A", "user">>
        st2 == [st1 EXCEPT
                  !.clients = MapDelete(@, socket),
                  !.muted = IF has /\ Get(st1.clients, socket).nickname \in @
                            THEN @ \ {Get(st1.clients, socket).nickname} ELSE @,
                  !.adminSocket = IF socket = @ THEN Null ELSE @]
        st3 == Broadcast(st2, Text1("has left the chat.", nickname), Null)
        st4 == BroadcastUserList(st3, TRUE)
    IN  IF st1.threw THEN st1
        ELSE LogMessage(st4, Text1("disconnected.", nickname))

\* handleNewConnection(socket, wss)
HandleNewConnection(st, socket) ==
    Send(st, socket, Text("Welcome! Enter your nickname:"))

\* --------------------------------------------------------------- actions
Call(op, socket, msg) == [op |-> op, socket |-> socket, msg |-> msg]

\* the state a handler leaves behind
Commit(st) ==
    /\ clients' = st.clients
    /\ muted' = st.muted
    /\ adminSocket' = st.adminSocket
    /\ readyState' = st.readyState
    /\ sent' = st.sent
    /\ logged' = st.logged
    /\ closeCalls' = st.closeCalls
    /\ threw' = st.threw
    /\ touched' = st.touched

Init ==
    /\ clients = <<>>
    /\ muted = {}
    /\ adminSocket = Null
    /\ ADMIN_PASSWORD = <<"pw">>
    /\ readyState = [s \in Sockets |-> "NONE"]
    /\ sent = [s \in Sockets |-> <<>>]
    /\ logged = <<>>
    /\ closeCalls = {}
    /\ threw = FALSE
    /\ touched = <<>>
    /\ call = Call("none", Null, Undefined)

\* wss.on('connection'): the server admits a socket
Connection(s) ==
    /\ readyState[s] = "NONE"
    /\ \A t \in Sockets : t < s => readyState[t] # "NONE"
    /\ Commit(HandleNewConnection([Start EXCEPT !.readyState[s] = "OPEN"], s))
    /\ call' = Call("handleNewConnection", s, Undefined)
    /\ UNCHANGED ADMIN_PASSWORD

\* socket.on('message'): one inbound line
Message(s, raw) ==
    /\ readyState[s] \in {"OPEN", "CLOSING"}
    /\ Commit(HandleMessage(Start, s, raw))
    /\ call' = Call("handleMessage", s, raw)
    /\ UNCHANGED ADMIN_PASSWORD

\* processChatMessage called for a socket that holds a nickname
Dispatch(s, msg) ==
    /\ readyState[s] \in {"OPEN", "CLOSING"}
    /\ Has(clients, s)
    /\ Truthy(Get(clients, s).nickname)
    /\ Commit(ProcessChatMessage(Start, s, Get(clients, s).nickname, msg))
    /\ call' = Call("processChatMessage", s, msg)
    /\ UNCHANGED ADMIN_PASSWORD

\* socket.on('close'): the transport has closed
CloseEvent(s) ==
    /\ readyState[s] \in {"OPEN", "CLOSING"}
    /\ Commit(HandleDisconnection([Start EXCEPT !.readyState[s] = "CLOSED"], s))
    /\ call' = Call("handleDisconnection", s, Undefined)
    /\ UNCHANGED ADMIN_PASSWORD

\* socket.on('error'): logs and closes the socket
ErrorEvent(s) ==
    /\ readyState[s] \in {"OPEN", "CLOSING"}
    /\ Commit(Close(Start, s))
    /\ call' = Call("error", s, Undefined)
    /\ UNCHANGED ADMIN_PASSWORD

Next ==
    \/ \E s \in Sockets : Connection(s)
    \/ \E s \in Sockets : \E raw \in NickLines :
          ~Truthy(CurrentNickname(clients, s)) /\ Message(s, raw)
    \/ \E s \in Sockets : \E raw \in WelcomedLines :
          Truthy(CurrentNickname(clients, s)) /\ Message(s, raw)
    \/ \E s \in Sockets : \E msg \in ChatLines : Dispatch(s, msg)
    \/ \E s \in Sockets : CloseEvent(s)
    \/ \E s \in Sockets : ErrorEvent(s)

Spec == Init /\ [][Next]_vars

\* ------------------------------------- first lines that look like commands
\* Lines a connection sends before it has been welcomed, commands among them.
ClaimLines ==
    { <<"Alice">>, <<"/admin", "pw">>, <<"/mute", "Alice">>, <<"exit">> }

\* Lines handed to the dispatcher for a connection that holds a nickname.
AdminLines ==
    { <<"/admin", "pw">>, <<"/mute", "Alice">> }

NextClaims ==
    \/ \E s \in Sockets : Connection(s)
    \/ \E s \in Sockets : \E raw \in ClaimLines :
          ~Truthy(CurrentNickname(clients, s)) /\ Message(s, raw)
    \/ \E s \in Sockets : \E msg \in AdminLines : Dispatch(s, msg)
    \/ \E s \in Sockets : CloseEvent(s)

SpecClaims == Init /\ [][NextClaims]_vars

\* ------------------------------------------------ routing of odd lines
\* The server driven with two nicknames and with lines whose first word is a
\* command while the line as a whole is not the command's usual form.
RoutedNickLines == { <<"Alice">>, <<"Bob">> }

RoutedLines ==
    { <<"/admin", "pw">>, <<"/list", "now">>, <<"/LIST">>, <<"typing:", "hello">>,
      <<"/mute">>, <<"/admin">>, <<"">>, <<"exit">> }

NextRouting ==
    \/ \E s \in Sockets : Connection(s)
    \/ \E s \in Sockets : \E raw \in RoutedNickLines :
          ~Truthy(CurrentNickname(clients, s)) /\ Message(s, raw)
    \/ \E s \in Sockets : \E msg \in RoutedLines : Dispatch(s, msg)
    \/ \E s \in Sockets : CloseEvent(s)

SpecRouting == Init /\ [][NextRouting]_vars

\* ----------------------------------------------- teardown called twice
\* The server with its exported close handler called once more for a socket
\* whose close event has already been handled.
TwiceNickLines == { <<"Alice">>, <<"Bob">> }

TwiceLines == { <<"/admin", "pw">>, <<"/mute", "Bob">>, <<"/mute", "Alice">> }

\* handleDisconnection(socket, wss) for a socket that is already closed
SecondClose(s) ==
    /\ readyState[s] = "CLOSED"
    /\ Commit(HandleDisconnection(Start, s))
    /\ call' = Call("handleDisconnection again", s, Undefined)
    /\ UNCHANGED ADMIN_PASSWORD

NextTwice ==
    \/ \E s \in Sockets : Connection(s)
    \/ \E s \in Sockets : \E raw \in TwiceNickLines :
          ~Truthy(CurrentNickname(clients, s)) /\ Message(s, raw)
    \/ \E s \in Sockets : \E msg \in TwiceLines : Dispatch(s, msg)
    \/ \E s \in Sockets : CloseEvent(s)
    \/ \E s \in Sockets : SecondClose(s)

SpecTwice == Init /\ [][NextTwice]_vars

\* ------------------------------------------- admin password from the env
\* The server started with or without ADMIN_PASSWORD in its environment:
\* process.env.ADMIN_PASSWORD is undefined when the variable is not set.
AdminNickLines == { <<"Alice">>, <<"Bob">> }

AdminProbeLines ==
    { <<"/admin">>, <<"/admin", "pw">>, <<"/admin", "bad">>, <<"/kick", "Bob">>,
      <<"hi">> }

InitAdmin ==
    /\ clients = <<>>
    /\ muted = {}
    /\ adminSocket = Null
    /\ ADMIN_PASSWORD \in { <<"pw">>, Undefined }
    /\ readyState = [s \in Sockets |-> "NONE"]
    /\ sent = [s \in Sockets |-> <<>>]
    /\ logged = <<>>
    /\ closeCalls = {}
    /\ threw = FALSE
    /\ touched = <<>>
    /\ call = Call("none", Null, Undefined)

NextAdmin ==
    \/ \E s \in Sockets : Connection(s)
    \/ \E s \in Sockets : \E raw \in AdminNickLines :
          ~Truthy(CurrentNickname(clients, s)) /\ Message(s, raw)
    \/ \E s \in Sockets : \E msg \in AdminProbeLines : Dispatch(s, msg)
    \/ \E s \in Sockets : CloseEvent(s)

SpecAdmin == InitAdmin /\ [][NextAdmin]_vars

\* ---------------------------------------------------------------- claims
\* the command word the dispatcher switches on
Command(msg) == LowerToken(msg[1])

AdminOnlyCommands == {"/kick", "/mute", "/unmute"}

KnownCommands ==
    {"/list", "typing:", "/admin", "/kick", "/mute", "/unmute", "/msg", "/lastseen"}

\* the line reaches the default case of the dispatcher
IsChat(msg) == ToLowerCase(msg) # <<"exit">> /\ Command(msg) \notin KnownCommands

\* the connection is one whose next line handleMessage reads as a nickname claim
Unauthenticated(s) ==
    readyState[s] \in {"OPEN", "CLOSING"} /\ ~Truthy(CurrentNickname(clients, s))

Registered(s) == Has(clients, s) /\ Truthy(Get(clients, s).nickname)

NoFrames == [s \in Sockets |-> <<>>]

OnlyTo(s, frames) == [t \in Sockets |-> IF t = s THEN frames ELSE <<>>]

Count(frames, f) == Cardinality({i \in 1..Len(frames) : frames[i] = f})

RosterOf(cl) ==
    Frame("USERS", Undefined, Undefined,
          [i \in 1..Len(cl) |-> UserEntry(cl[i].nickname, "lastSeen")])

\* the state a finished handler hands to the next one
After(st) ==
    [st EXCEPT !.sent = NoFrames, !.logged = <<>>, !.closeCalls = {},
               !.threw = FALSE, !.touched = <<>>]

\* C1: in every reachable state no two registered sessions hold the same
\* nickname, compared as exact strings, and no socket is registered twice.
C1_NicknamesUnique ==
    \A i, j \in 1..Len(clients) :
        i # j => /\ clients[i].nickname # clients[j].nickname
                 /\ clients[i].socket # clients[j].socket

\* two sessions are registered and the last line was a refused claim of a held name
C1_Witness ==
    /\ Len(clients) = 2
    /\ call.op = "handleMessage"
    /\ sent[call.socket] = <<Text("Nickname taken. Try another:")>>

\* C2: when two unauthenticated connections claim the same free nickname, then
\* in either order of the two handlers the first is welcomed and registered
\* under it, and the second gets 'Nickname taken. Try another:', is not
\* registered under it and stays unauthenticated.
C2_ExactlyOneClaimSucceeds ==
    \A s, t \in Sockets : \A m, n \in NickLines :
        ( /\ s # t
          /\ Unauthenticated(s)
          /\ Unauthenticated(t)
          /\ Trim(m) = Trim(n)
          /\ ~NicknameTaken(clients, Trim(m)) )
        => LET r1 == HandleMessage(Start, s, m)
               r2 == HandleMessage(After(r1), t, n)
           IN  /\ Count(r1.sent[s], Text1("Welcome", Trim(m))) = 1
               /\ Has(r2.clients, s)
               /\ Get(r2.clients, s).nickname = Trim(m)
               /\ r2.sent[t] = <<Text("Nickname taken. Try another:")>>
               /\ r2.sent[s] = <<>>
               /\ r2.clients = r1.clients
               /\ ~Truthy(CurrentNickname(r2.clients, t))

\* one connection holds a nickname and the other, still unauthenticated, has
\* just been refused the same nickname
C2_Witness ==
    /\ call.op = "handleMessage"
    /\ Unauthenticated(call.socket)
    /\ sent[call.socket] = <<Text("Nickname taken. Try another:")>>
    /\ \E s \in Sockets :
          /\ s # call.socket
          /\ Registered(s)
          /\ readyState[s] = "OPEN"
          /\ Get(clients, s).nickname = Trim(call.msg)

\* C3: a nickname claim that names a nickname held by a registered session is
\* answered 'Nickname taken. Try another:' and has no other effect: registry,
\* mute registry, admin slot and connection states are unchanged, nothing goes
\* to any other connection, no roster is published, no timestamp is touched,
\* nothing is logged, and the handler returns normally.
C3_TakenClaimOnlyReplies ==
    [][ \A s \in Sockets :
          ( /\ call'.op = "handleMessage"
            /\ call'.socket = s
            /\ Unauthenticated(s)
            /\ NicknameTaken(clients, Trim(call'.msg)) )
          => /\ sent' = OnlyTo(s, <<Text("Nickname taken. Try another:")>>)
             /\ clients' = clients
             /\ muted' = muted
             /\ adminSocket' = adminSocket
             /\ readyState' = readyState
             /\ logged' = <<>>
             /\ touched' = <<>>
             /\ closeCalls' = {}
             /\ ~threw'
             /\ Unauthenticated(s)' ]_vars

\* a claim has just been refused while another connection was open to hear of it
C3_Witness ==
    /\ call.op = "handleMessage"
    /\ ~Has(clients, call.socket)
    /\ sent[call.socket] = <<Text("Nickname taken. Try another:")>>
    /\ \E s \in Sockets : s # call.socket /\ readyState[s] = "OPEN"

\* C4: a nickname claim that names no registered nickname succeeds: the session
\* is registered under exactly the claimed name; the claimant gets the welcome
\* naming it, once, and no join notice; every other open connection gets
\* '<name> joined the chat' once and no welcome; the roster with the new
\* nickname goes to every open connection; and the line is not dispatched:
\* mute registry and admin slot are unchanged, nothing is logged, nothing closed.
C4_FreeClaimSucceeds ==
    [][ \A s \in Sockets :
          ( /\ call'.op = "handleMessage"
            /\ call'.socket = s
            /\ Unauthenticated(s)
            /\ ~NicknameTaken(clients, Trim(call'.msg)) )
          => LET name == Trim(call'.msg)
                 roster == RosterOf(clients')
             IN  /\ Has(clients', s)
                 /\ Get(clients', s).nickname = name
                 /\ \E i \in 1..Len(roster.users) : roster.users[i].nickname = name
                 /\ \A t \in Sockets :
                       sent'[t] =
                          (IF t = s THEN <<Text1("Welcome", name)>>
                           ELSE IF readyState[t] = "OPEN"
                                THEN <<Text1("joined the chat", name)>> ELSE <<>>)
                          \o (IF readyState[t] = "OPEN" THEN <<roster>> ELSE <<>>)
                 /\ \A t \in Sockets \ {s} :
                       Has(clients, t) => /\ Has(clients', t)
                                          /\ Get(clients', t) = Get(clients, t)
                 /\ muted' = muted
                 /\ adminSocket' = adminSocket
                 /\ readyState' = readyState
                 /\ logged' = <<>>
                 /\ closeCalls' = {} ]_vars

\* a claim has just succeeded and another open connection was told of the join
C4_Witness ==
    /\ call.op = "handleMessage"
    /\ Registered(call.socket)
    /\ Count(sent[call.socket], Text1("Welcome", Trim(call.msg))) = 1
    /\ \E t \in Sockets :
          /\ t # call.socket
          /\ Count(sent[t], Text1("joined the chat", Trim(call.msg))) = 1
          /\ Count(sent[t], RosterOf(clients)) = 1

\* the last step ran a handler on an inbound line of a connection that holds a nickname
LineFrom(s) ==
    /\ call.op \in {"handleMessage", "processChatMessage"}
    /\ call.socket = s

\* what the dispatcher answers to the admin-only lines of a connection
RejectsAdminOnly(s) ==
    \A m \in ChatLines :
        Command(m) \in AdminOnlyCommands =>
            LET r == ProcessChatMessage(Start, s, Get(clients, s).nickname, m)
            IN  /\ r.sent = OnlyTo(s, <<Text("Admin only.")>>)
                /\ r.muted = muted
                /\ r.closeCalls = {}

\* C5: a /kick, /mute or /unmute line from a connection that does not hold the
\* admin slot changes nothing: mute registry, registry, admin slot and
\* connection states are unchanged, nothing is closed, logged or sent to any
\* other connection; the dispatcher's whole output is 'Admin only.' to the sender.
C5_AdminOnlyRejected ==
    [][ \A s \in Sockets :
          ( /\ LineFrom(s)'
            /\ Registered(s)
            /\ Command(Trim(call'.msg)) \in AdminOnlyCommands
            /\ s # adminSocket )
          => /\ muted' = muted
             /\ clients' = clients
             /\ adminSocket' = adminSocket
             /\ readyState' = readyState
             /\ closeCalls' = {}
             /\ logged' = <<>>
             /\ \A t \in Sockets \ {s} : sent'[t] = <<>>
             /\ sent'[s] \in {<<>>, <<Text("Admin only.")>>}
             /\ call'.op = "processChatMessage" => sent'[s] = <<Text("Admin only.")>> ]_vars

\* a connection without the admin slot has just been refused /mute for a
\* registered nickname while another connection holds the slot
C5_Witness ==
    /\ call.op = "processChatMessage"
    /\ Command(call.msg) = "/mute"
    /\ adminSocket \notin {Null, call.socket}
    /\ NicknameTaken(clients, Part(call.msg, 1))
    /\ sent[call.socket] = <<Text("Admin only.")>>

\* C6: the admin slot changes to a connection only in a step in which that
\* connection's /admin line carries the configured password, and that step
\* replies 'You are now the admin.'; an /admin line with another password
\* leaves the slot as it was, whoever holds it, and the dispatcher's whole
\* output for it is 'Wrong password.' to the sender.
C6_AdminOnlyByPassword ==
    [][ /\ (adminSocket' # adminSocket /\ adminSocket' # Null)
           => /\ call'.op = "processChatMessage"
              /\ call'.socket = adminSocket'
              /\ Command(call'.msg) = "/admin"
              /\ Part(call'.msg, 1) = ADMIN_PASSWORD
              /\ sent' = OnlyTo(adminSocket', <<Text("You are now the admin.")>>)
        /\ \A s \in Sockets :
              ( /\ LineFrom(s)'
                /\ Registered(s)
                /\ Command(Trim(call'.msg)) = "/admin"
                /\ Part(Trim(call'.msg), 1) # ADMIN_PASSWORD )
              => /\ adminSocket' = adminSocket
                 /\ call'.op = "processChatMessage"
                       => sent' = OnlyTo(s, <<Text("Wrong password.")>>) ]_vars

\* a wrong password has just been refused while another connection holds the slot
C6_Witness ==
    /\ call.op = "processChatMessage"
    /\ call.msg = <<"/admin", "bad">>
    /\ sent[call.socket] = <<Text("Wrong password.")>>
    /\ adminSocket \notin {Null, call.socket}

\* C7: the slot is a single handle, so at most one connection passes the admin
\* check; an /admin line with the configured password from B while A holds
\* the slot makes B the holder, and A's /kick, /mute and /unmute lines are then
\* answered 'Admin only.' and change nothing.
C7_LastLoginWins ==
    [][ \A a, b \in Sockets :
          ( /\ call'.op = "processChatMessage"
            /\ call'.socket = b
            /\ Command(call'.msg) = "/admin"
            /\ Part(call'.msg, 1) = ADMIN_PASSWORD
            /\ adminSocket = a
            /\ a # b )
          => /\ adminSocket' = b
             /\ Cardinality({s \in Sockets : s = adminSocket'}) = 1
             /\ Registered(a)'
             /\ RejectsAdminOnly(a)' ]_vars

\* B has just logged in as admin while another registered connection, which is
\* refused the admin-only commands, is still open
C7_Witness ==
    /\ call.op = "processChatMessage"
    /\ call.msg = <<"/admin", "pw">>
    /\ adminSocket = call.socket
    /\ \E a \in Sockets :
          /\ a # call.socket
          /\ Registered(a)
          /\ readyState[a] = "OPEN"
          /\ RejectsAdminOnly(a)

\* C8: after the teardown of the connection that holds the admin slot the slot
\* is empty, so no closed connection passes the admin check.
C8_AdminClearedByTeardown ==
    \A s \in Sockets : readyState[s] = "CLOSED" => adminSocket # s

\* the admin's connection has closed and its teardown has run
C8_Witness ==
    /\ call.op = "handleDisconnection"
    /\ readyState[call.socket] = "CLOSED"
    /\ adminSocket = call.socket
    /\ threw

\* C9: the teardown of a connection whose nickname is in the mute registry
\* leaves that nickname unmuted.
C9_MutePurgedByTeardown ==
    [][ \A s \in Sockets :
          ( /\ call'.op = "handleDisconnection"
            /\ call'.socket = s
            /\ Registered(s)
            /\ Get(clients, s).nickname \in muted )
          => Get(clients, s).nickname \notin muted' ]_vars

\* a muted nickname's holder has closed and its teardown has run
C9_Witness ==
    /\ call.op = "handleDisconnection"
    /\ Has(clients, call.socket)
    /\ Get(clients, call.socket).nickname \in muted
    /\ threw

\* C10: a generic chat line from the session that holds a muted nickname is
\* sent to no other connection and is not logged; the dispatcher's whole
\* output for it is 'You are muted.' to the sender.
C10_MutedChatBlocked ==
    [][ \A s \in Sockets :
          ( /\ LineFrom(s)'
            /\ Registered(s)
            /\ Get(clients, s).nickname \in muted
            /\ IsChat(Trim(call'.msg)) )
          => /\ \A t \in Sockets \ {s} : sent'[t] = <<>>
             /\ logged' = <<>>
             /\ muted' = muted
             /\ sent'[s] \in {<<>>, <<Text("You are muted.")>>}
             /\ call'.op = "processChatMessage" => sent'[s] = <<Text("You are muted.")>> ]_vars

\* a muted session has just been told so while another connection is open
C10_Witness ==
    /\ call.op = "processChatMessage"
    /\ IsChat(call.msg)
    /\ Get(clients, call.socket).nickname \in muted
    /\ sent[call.socket] = <<Text("You are muted.")>>
    /\ \E t \in Sockets : t # call.socket /\ readyState[t] = "OPEN"

\* the nickname a registered connection holds
Nick(s) == Get(clients, s).nickname

\* the connection can still deliver a line to the server
Live(s) == readyState[s] \in {"OPEN", "CLOSING"}

\* lines the claims put to the handlers: the lines the connections send, and
\* the same commands aimed at other targets and at an unknown nickname
ProbeLines ==
    ChatLines \cup
    { <<"/msg", "Alice", "hi">>, <<"/msg", "Carol", "hi">>, <<"/msg", "Bob">>,
      <<"/kick", "Alice">>, <<"/kick", "Carol">>, <<"/kick">>,
      <<"/mute", "Alice">>, <<"/unmute", "Alice">>, <<"/mute", "Carol">>,
      <<"/LIST">>, <<"typing:">>,
      <<"hello", "there">>, <<"/unknown">>, <<"exit", "now">>, <<"/listing">> }

\* the handler-local state with nickname n taken out of the mute registry
Unmuted(st, n) == [st EXCEPT !.muted = @ \ {n}]

\* two handler results agree on everything but the membership of n in the mute registry
SameBut(r, u, n) ==
    /\ r.sent = u.sent
    /\ r.logged = u.logged
    /\ r.closeCalls = u.closeCalls
    /\ r.threw = u.threw
    /\ r.touched = u.touched
    /\ r.clients = u.clients
    /\ r.adminSocket = u.adminSocket
    /\ r.readyState = u.readyState
    /\ r.muted \ {n} = u.muted \ {n}

\* C11: for a session whose nickname is muted, every line that is not generic
\* chat (/msg, typing, /list, /lastseen, /admin, /kick, /mute, /unmute) has the
\* result it would have were the nickname not muted, through the dispatcher and
\* through handleMessage alike; no such line gets 'You are muted.'; the
\* dispatcher delivers its /msg to a registered target and its typing notice to
\* every other registered open connection; and only /mute and /unmute change
\* the mute registry.
C11_MuteBlocksOnlyChat ==
    [] (
    \A s \in Sockets :
        (Registered(s) /\ Live(s) /\ Nick(s) \in muted) =>
            \A m \in ProbeLines :
                Command(m) \in KnownCommands =>
                    LET n == Nick(s)
                        r == ProcessChatMessage(Start, s, n, m)
                        u == ProcessChatMessage(Unmuted(Start, n), s, n, m)
                        target == Find(clients, Part(m, 1))
                    IN  /\ SameBut(r, u, n)
                        /\ SameBut(HandleMessage(Start, s, m),
                                   HandleMessage(Unmuted(Start, n), s, m), n)
                        /\ \A t \in Sockets : Count(r.sent[t], Text("You are muted.")) = 0
                        /\ Command(m) \notin {"/mute", "/unmute"} => r.muted = muted
                        /\ (Command(m) = "/msg" /\ target # Null) =>
                               Count(r.sent[target],
                                     Text2("[Private]", n, SliceJoin(m))) = 1
                        /\ Command(m) = "typing:" =>
                               \A t \in Sockets \ {s} :
                                   (Has(clients, t) /\ readyState[t] = "OPEN") =>
                                       r.sent[t] = <<Text1("[TYPING]", n)>>
    )

\* a muted session's private message has just been delivered and logged
C11_Witness ==
    /\ call.op = "processChatMessage"
    /\ Command(call.msg) = "/msg"
    /\ Registered(call.socket)
    /\ Nick(call.socket) \in muted
    /\ \E t \in Sockets :
          Count(sent[t], Text2("[Private]", Nick(call.socket), SliceJoin(call.msg))) = 1
    /\ Len(logged) = 1

\* the handler left the server state as it found it
StateKept(r) ==
    /\ r.clients = clients
    /\ r.muted = muted
    /\ r.adminSocket = adminSocket
    /\ r.readyState = readyState
    /\ r.closeCalls = {}

C13_UnknownTargetOnlyReplies ==
    [] (
    \A s \in Sockets :
        (Registered(s) /\ Live(s)) =>
            \A m \in ProbeLines :
                ( /\ \/ Command(m) = "/msg"
                     \/ Command(m) = "/kick" /\ s = adminSocket
                  /\ ~NicknameTaken(clients, Part(m, 1)) )
                => LET r == ProcessChatMessage(Start, s, Nick(s), m)
                   IN  /\ r.sent = OnlyTo(s, <<Text("User not found.")>>)
                       /\ r.logged = <<>>
                       /\ StateKept(r)
                       /\ ~r.threw
    )

\* the admin has just been told that the nickname it tried to kick is unknown,
\* while another connection was open
C13_Witness ==
    /\ call.op = "processChatMessage"
    /\ Command(call.msg) = "/kick"
    /\ call.socket = adminSocket
    /\ ~NicknameTaken(clients, Part(call.msg, 1))
    /\ sent[call.socket] = <<Text("User not found.")>>
    /\ logged = <<>>
    /\ \E t \in Sockets \ {call.socket} : readyState[t] = "OPEN" /\ sent[t] = <<>>

\* the nicknames a '/list' reply or a roster frame built from registry cl names
Listed(cl) == { cl[i].nickname : i \in 1..Len(cl) }

\* the 'close' event of socket s, delivered to the state handler result r left
Teardown(r, s) ==
    HandleDisconnection([After(r) EXCEPT !.readyState[s] = "CLOSED"], s)

\* C14: when the admin sends '/kick <name>' for the nickname of a registered,
\* open session, the target is sent 'You have been kicked.' and its connection
\* is then closed; and once the target's close event has been handled, the
\* target is absent from the session registry, so that a /list reply and a
\* roster frame built afterwards omit <name>.
C14_KickedThenRemoved ==
    \A a, t \in Sockets :
        ( /\ a = adminSocket
          /\ Registered(a) /\ Live(a)
          /\ Registered(t) /\ readyState[t] = "OPEN" )
        => LET name == Nick(t)
               r1 == ProcessChatMessage(Start, a, Nick(a), <<"/kick">> \o name)
               r2 == Teardown(r1, t)
           IN  /\ r1.sent[t] = <<Text("You have been kicked.")>>
               /\ r1.closeCalls = {t}
               /\ r1.readyState[t] = "CLOSING"
               /\ ~Has(r2.clients, t)
               /\ name \notin Listed(r2.clients)

\* the admin has just kicked a registered session: the target was sent the
\* notice and its connection is closing
C14_Witness ==
    /\ call.op = "processChatMessage"
    /\ Command(call.msg) = "/kick"
    /\ call.socket = adminSocket
    /\ \E t \in Sockets \ {call.socket} :
          /\ Registered(t)
          /\ Nick(t) = Part(call.msg, 1)
          /\ sent[t] = <<Text("You have been kicked.")>>
          /\ closeCalls = {t}
          /\ readyState[t] = "CLOSING"

\* C15: broadcast(text, except), called in any reachable state with any
\* connection or null as except, hands text exactly once to every connection
\* that is open and is not except, registered or not, and to no other: not to
\* except, not to a closing or closed connection; it returns normally and
\* changes no server state.
C15_BroadcastReachesOpenOthers ==
    [] (
    \A except \in Sockets \cup {Null} :
        LET text == Text("text")
            r == Broadcast(Start, text, except)
        IN  /\ \A t \in Sockets :
                  r.sent[t] = IF readyState[t] = "OPEN" /\ t # except
                              THEN <<text>> ELSE <<>>
            /\ ~r.threw
            /\ r.logged = <<>>
            /\ StateKept(r)
    )

\* the admin's /mute has just been broadcast while the other connection was
\* closing: that connection was sent nothing and the handler returned normally
C15_Witness ==
    /\ call.op = "processChatMessage"
    /\ Command(call.msg) = "/mute"
    /\ call.socket = adminSocket
    /\ Part(call.msg, 1) \in muted
    /\ ~threw
    /\ sent[call.socket] = <<>>
    /\ \E t \in Sockets \ {call.socket} : readyState[t] = "CLOSING" /\ sent[t] = <<>>

\* C16: a typing line ('TYPING:' in any letter case) from a registered session
\* hands '[TYPING] <nickname>' exactly once to every other connection that is
\* registered and open, and nothing to any other connection: not to the
\* sender, not to a connection that has claimed no nickname, not to one that is
\* closing or closed; nothing is logged and the server state is unchanged; and
\* the result is the same with the sender's nickname in the mute registry.
C16_TypingToRegisteredOthers ==
    [] (
    \A s \in Sockets :
        (Registered(s) /\ Live(s)) =>
            \A m \in ProbeLines :
                Command(m) = "typing:" =>
                    LET n == Nick(s)
                        r == ProcessChatMessage(Start, s, n, m)
                        rm == ProcessChatMessage([Start EXCEPT !.muted = @ \cup {n}],
                                                 s, n, m)
                    IN  /\ \A t \in Sockets :
                              r.sent[t] =
                                 IF t # s /\ Has(clients, t) /\ readyState[t] = "OPEN"
                                 THEN <<Text1("[TYPING]", n)>> ELSE <<>>
                        /\ r.logged = <<>>
                        /\ ~r.threw
                        /\ StateKept(r)
                        /\ rm.sent = r.sent
                        /\ rm.logged = <<>>
    )

\* a muted session's typing notice has just reached the other registered session
C16_Witness ==
    /\ call.op = "processChatMessage"
    /\ Command(call.msg) = "typing:"
    /\ Nick(call.socket) \in muted
    /\ sent[call.socket] = <<>>
    /\ logged = <<>>
    /\ \E t \in Sockets \ {call.socket} :
          /\ Registered(t)
          /\ sent[t] = <<Text1("[TYPING]", Nick(call.socket))>>

\* C17: a generic chat line (any line that is not 'exit' and whose first word is
\* no command, unknown '/words' included) from a registered session whose
\* nickname is not muted is formatted once, with the sender's nickname and the
\* raw line; that one formatted line is handed exactly once to every other open
\* connection, registered or not, and exactly once to the log; the sender is
\* sent nothing, no closing or closed connection is sent anything, and the
\* server state is unchanged.
C17_ChatBroadcastAndLogged ==
    [] (
    \A s \in Sockets :
        (Registered(s) /\ Live(s) /\ Nick(s) \notin muted) =>
            \A m \in ProbeLines :
                IsChat(m) =>
                    LET formattedMessage == Text2("--", Nick(s), m)
                        r == ProcessChatMessage(Start, s, Nick(s), m)
                    IN  /\ \A t \in Sockets :
                              r.sent[t] = IF t # s /\ readyState[t] = "OPEN"
                                          THEN <<formattedMessage>> ELSE <<>>
                        /\ r.logged = <<formattedMessage>>
                        /\ ~r.threw
                        /\ StateKept(r)
    )

\* a chat line has just been broadcast and logged while the other connection,
\* which had claimed no nickname, was open and received it
C17_Witness ==
    /\ call.op = "processChatMessage"
    /\ IsChat(call.msg)
    /\ Nick(call.socket) \notin muted
    /\ sent[call.socket] = <<>>
    /\ logged = <<Text2("--", Nick(call.socket), call.msg)>>
    /\ \E t \in Sockets \ {call.socket} :
          /\ ~Has(clients, t)
          /\ readyState[t] = "OPEN"
          /\ sent[t] = logged

\* the name handleDisconnection announces for connection s
LeavingName(s) == IF Registered(s) THEN Nick(s) ELSE <<"A", "user">>

\* C18: the close handler, run for a connection in any state (no nickname
\* claimed, registered, muted, admin), returns normally, and afterwards the
\* connection is absent from the session registry; every connection that is
\* still open has been sent '<name> has left the chat.' exactly once, followed
\* by the roster of the remaining sessions; and '<name> disconnected.' has been
\* logged once, <name> being the session's nickname, or 'A user' if it has none.
C18_TeardownCompletes ==
    \A s \in Sockets :
        Live(s) =>
            LET name == LeavingName(s)
                r == Teardown(Start, s)
            IN  /\ ~r.threw
                /\ ~Has(r.clients, s)
                /\ \A t \in Sockets :
                      r.sent[t] = IF t # s /\ readyState[t] = "OPEN"
                                  THEN << Text1("has left the chat.", name),
                                          RosterOf(r.clients) >>
                                  ELSE <<>>
                /\ r.logged = <<Text1("disconnected.", name)>>

\* the close handler has just run for a registered session while another
\* connection was open: it threw, announced nothing and logged nothing
C18_Witness ==
    /\ call.op = "handleDisconnection"
    /\ Registered(call.socket)
    /\ threw
    /\ logged = <<>>
    /\ \E t \in Sockets \ {call.socket} : readyState[t] = "OPEN" /\ sent[t] = <<>>

\* C19: for every line handleMessage receives from a registered session,
\* whatever its content, the handler refreshes the sender's last-activity
\* timestamp, sends the roster to every open connection, and then dispatches
\* the line: what follows the roster frame on each connection, the log, the
\* closed connections and the resulting server state are the dispatcher's for
\* that line, and the handler returns normally.
C19_TouchRosterThenDispatch ==
    \A s \in Sockets :
        (Registered(s) /\ Live(s)) =>
            \A m \in ProbeLines :
                LET r == HandleMessage(Start, s, m)
                    d == ProcessChatMessage(Start, s, Nick(s), Trim(m))
                IN  /\ r.touched = <<s>>
                    /\ ~r.threw
                    /\ \A t \in Sockets :
                          r.sent[t] = (IF readyState[t] = "OPEN"
                                       THEN <<RosterOf(clients)>> ELSE <<>>)
                                      \o d.sent[t]
                    /\ r.logged = d.logged
                    /\ r.closeCalls = d.closeCalls
                    /\ r.clients = d.clients
                    /\ r.muted = d.muted
                    /\ r.adminSocket = d.adminSocket
                    /\ r.readyState = d.readyState

\* handleMessage has just run on a line of a registered session: the timestamp
\* was refreshed, then the handler threw; no roster and no reply were sent
C19_Witness ==
    /\ call.op = "handleMessage"
    /\ Registered(call.socket)
    /\ touched = <<call.socket>>
    /\ threw
    /\ sent = NoFrames
    /\ \E t \in Sockets \ {call.socket} : readyState[t] = "OPEN"

\* nicknames the admin's /mute and /unmute lines are aimed at: held, and held by no one
ProbeNames == { <<"Alice">>, <<"Bob">>, <<"Carol">> }

\* C20: /mute and /unmute of the admin act on the mute registry as on a set.
\* Muting a nickname adds it and muting it again changes nothing; unmuting a
\* nickname that is not muted leaves the registry as it is, sends the admin no
\* reply, closes nothing and returns normally; and muting a nickname that was
\* not muted and then unmuting it gives back the registry as it was.
C20_MuteRegistryIsASet ==
    [] (
    \A a \in Sockets :
        (a = adminSocket /\ Registered(a) /\ Live(a)) =>
            \A x \in ProbeNames :
                LET mute1 == ProcessChatMessage(Start, a, Nick(a), <<"/mute">> \o x)
                    mute2 == ProcessChatMessage(After(mute1), a, Nick(a), <<"/mute">> \o x)
                    unmute0 == ProcessChatMessage(Start, a, Nick(a), <<"/unmute">> \o x)
                    unmute1 == ProcessChatMessage(After(mute1), a, Nick(a),
                                                  <<"/unmute">> \o x)
                IN  /\ mute1.muted = muted \cup {x}
                    /\ mute2.muted = mute1.muted
                    /\ x \in muted => mute1.muted = muted
                    /\ x \notin muted =>
                          /\ unmute0.muted = muted
                          /\ unmute0.sent[a] = <<>>
                          /\ unmute0.closeCalls = {}
                          /\ unmute0.readyState = readyState
                          /\ ~unmute0.threw
                          /\ unmute1.muted = muted
                    /\ unmute0.muted = muted \ {x}
    )

\* the admin has just unmuted a nickname, the registry is empty, the admin was
\* sent no reply and stays open, and the other open connection was told
C20_Witness ==
    /\ call.op = "processChatMessage"
    /\ Command(call.msg) = "/unmute"
    /\ call.socket = adminSocket
    /\ muted = {}
    /\ sent[call.socket] = <<>>
    /\ closeCalls = {}
    /\ readyState[call.socket] = "OPEN"
    /\ \E t \in Sockets \ {call.socket} :
          sent[t] = <<Text1("has been unmuted.", Part(call.msg, 1))>>

\* the number of roster frames among frames
RosterFrames(frames) ==
    Cardinality({i \in 1..Len(frames) : frames[i].kind = "USERS"})

C22_OneTouchPerAcceptedLine ==
    [] (
    \A s \in Sockets :
        Live(s) =>
            /\ Unauthenticated(s) =>
                  \A m \in NickLines :
                      LET r == HandleMessage(Start, s, m)
                      IN  IF NicknameTaken(clients, Trim(m))
                          THEN r.touched = <<>>
                          ELSE r.touched = <<s>> /\ Has(r.clients, s)
            /\ Registered(s) =>
                  \A m \in ProbeLines : HandleMessage(Start, s, m).touched = <<s>>
    )

\* handleMessage has just run on an /admin line of a registered session and
\* touched that session's timestamp once
C22_Witness ==
    /\ call.op = "handleMessage"
    /\ Registered(call.socket)
    /\ Command(Trim(call.msg)) = "/admin"
    /\ Len(touched) = 1
    /\ touched[1] = call.socket

\* the ways a connection writes 'exit'
ExitLines == { <<"exit">>, <<"EXIT">>, <<"Exit">> }

\* after handler result r the session of connection t is still listed under
\* nickname n and still found by /msg and /kick
StillResolvable(r, t, n) ==
    /\ n \in Listed(r.clients)
    /\ Find(r.clients, n) = t
    /\ \E i \in 1..Len(RosterOf(r.clients).users) :
          RosterOf(r.clients).users[i].nickname = n
    /\ ProcessChatMessage(After(r), t, n, <<"/list">>).sent[t] =
          << Frame("Online:", Undefined, Undefined,
                   [i \in 1..Len(clients) |-> UserEntry(clients[i].nickname, "")]) >>

\* C23: 'exit' and the admin's /kick of a registered nickname only ask for a
\* connection to be closed. When the handler returns close() has been called
\* on that one connection, which is then closing if it was open; the session
\* registry, the mute registry and the admin slot are as before; and so the
\* target is still named by /list and by the roster and is still the session
\* that /msg and /kick find under its nickname.
C23_KickAndExitOnlyClose ==
    [] (
    \A s \in Sockets :
        (Registered(s) /\ Live(s)) =>
            /\ \A m \in ExitLines :
                  LET r == ProcessChatMessage(Start, s, Nick(s), m)
                  IN  /\ r.closeCalls = {s}
                      /\ r.readyState = [readyState EXCEPT ![s] = "CLOSING"]
                      /\ r.sent = NoFrames
                      /\ r.clients = clients
                      /\ r.muted = muted
                      /\ r.adminSocket = adminSocket
                      /\ StillResolvable(r, s, Nick(s))
            /\ s = adminSocket =>
                  \A t \in Sockets :
                      Registered(t) =>
                          LET r == ProcessChatMessage(Start, s, Nick(s),
                                                      <<"/kick">> \o Nick(t))
                          IN  /\ r.closeCalls = {t}
                              /\ r.readyState =
                                    [readyState EXCEPT
                                       ![t] = IF @ = "OPEN" THEN "CLOSING" ELSE @]
                              /\ r.clients = clients
                              /\ r.muted = muted
                              /\ r.adminSocket = adminSocket
                              /\ StillResolvable(r, t, Nick(t))
    )

\* a registered session has just sent 'exit': its connection is closing and it
\* is still registered, and still the admin if it was
C23_Witness ==
    /\ call.op = "processChatMessage"
    /\ call.msg = <<"exit">>
    /\ closeCalls = {call.socket}
    /\ readyState[call.socket] = "CLOSING"
    /\ Registered(call.socket)
    /\ adminSocket = call.socket
    /\ sent = NoFrames

\* frames is free of welcomes and join announcements
NoClaimFrames(frames) ==
    \A i \in 1..Len(frames) : frames[i].kind \notin {"Welcome", "joined the chat"}

\* C24: a connection's session is given its nickname once. Once a connection
\* has been welcomed, that is, once it has a session in the registry, no later
\* line from it is read as a nickname claim: the line brings no welcome, no
\* join announcement to anyone, and leaves the session's nickname as it was.
C24_NicknameAssignedOnce ==
    \A s \in Sockets :
        (Has(clients, s) /\ Live(s)) =>
            \A m \in NickLines \cup WelcomedLines :
                LET r == HandleMessage(Start, s, m)
                IN  /\ \A t \in Sockets : NoClaimFrames(r.sent[t])
                    /\ Has(r.clients, s)
                    /\ Get(r.clients, s).nickname = Nick(s)

\* a connection that already had a session, ahead of the other session in the
\* registry, has just been welcomed again under a new nickname
C24_Witness ==
    /\ call.op = "handleMessage"
    /\ Len(clients) = 2
    /\ clients[1].socket = call.socket
    /\ Truthy(Trim(call.msg))
    /\ Nick(call.socket) = Trim(call.msg)
    /\ Count(sent[call.socket], Text1("Welcome", Trim(call.msg))) = 1
    /\ Count(sent[clients[2].socket], Text1("joined the chat", Trim(call.msg))) = 1

\* the kinds of the frames in frames
Kinds(frames) == { frames[i].kind : i \in 1..Len(frames) }

\* C25: every line of a connection that holds no nickname is handled as a
\* nickname claim and as nothing else, also when it reads '/admin <password>',
\* '/mute X', '/kick X', '/msg X hi' or 'exit': the admin slot, the mute
\* registry and every connection's state are unchanged, nothing is closed or
\* logged, the sender is sent the refusal or the welcome and roster, and any
\* other connection at most the join announcement and the roster, never a chat
\* line, a private message or a kick notice. And a connection without a
\* session is named by no /list reply and no roster and is the target of no
\* /msg or /kick: no nickname resolves to it.
C25_UnclaimedLinesAreClaims ==
    [] (
    \A s \in Sockets :
        (Live(s) /\ ~Registered(s)) =>
            /\ \A m \in ClaimLines \cup ProbeLines \cup ExitLines :
                  LET r == HandleMessage(Start, s, m)
                  IN  /\ r.adminSocket = adminSocket
                      /\ r.muted = muted
                      /\ r.readyState = readyState
                      /\ r.closeCalls = {}
                      /\ r.logged = <<>>
                      /\ \/ r.sent = OnlyTo(s, <<Text("Nickname taken. Try another:")>>)
                         \/ /\ Has(r.clients, s)
                            /\ Get(r.clients, s).nickname = Trim(m)
                            /\ Kinds(r.sent[s]) \subseteq {"Welcome", "USERS"}
                      /\ \A t \in Sockets \ {s} :
                            Kinds(r.sent[t]) \subseteq {"joined the chat", "USERS"}
            /\ ~Has(clients, s) =>
                  /\ \A i \in 1..Len(clients) : clients[i].socket # s
                  /\ \A t \in Sockets :
                        (Registered(t) /\ Live(t)) =>
                            \A m \in ProbeLines :
                                Command(m) \in {"/msg", "/kick"} =>
                                    LET r == ProcessChatMessage(Start, t, Nick(t), m)
                                    IN  r.sent[s] = <<>> /\ s \notin r.closeCalls
    )

\* a connection without a nickname has just sent '/admin <password>' with the
\* configured password while another connection was open: it was welcomed
\* under that line as its nickname and does not hold the admin slot
C25_Witness ==
    /\ call.op = "handleMessage"
    /\ call.msg = <<"/admin", "pw">>
    /\ Part(call.msg, 1) = ADMIN_PASSWORD
    /\ Has(clients, call.socket)
    /\ Nick(call.socket) = call.msg
    /\ adminSocket # call.socket
    /\ \E t \in Sockets \ {call.socket} :
          /\ readyState[t] = "OPEN"
          /\ Kinds(sent[t]) = {"joined the chat", "USERS"}

\* C26: the close handler of a registered session sends every connection that
\* remains open three frames in this order: the roster of the touch, which
\* still names the departing nickname; the leave announcement; and the roster
\* of the teardown, built after the removal, which no longer names it.
C26_TwoRostersAroundLeave ==
    \A s \in Sockets :
        (Registered(s) /\ Live(s)) =>
            LET r == Teardown(Start, s)
            IN  \A t \in Sockets \ {s} :
                    readyState[t] = "OPEN" =>
                        /\ r.sent[t] = << RosterOf(clients),
                                          Text1("has left the chat.", Nick(s)),
                                          RosterOf(MapDelete(clients, s)) >>
                        /\ Nick(s) \in Listed(clients)
                        /\ Nick(s) \notin Listed(MapDelete(clients, s))

\* the close handler has just run for a registered session: it refreshed the
\* timestamp and threw, and the connection that is still open got no roster
C26_Witness ==
    /\ call.op = "handleDisconnection"
    /\ Registered(call.socket)
    /\ touched = <<call.socket>>
    /\ threw
    /\ \E t \in Sockets \ {call.socket} :
          readyState[t] = "OPEN" /\ RosterFrames(sent[t]) = 0

\* handler result r sent the roster of the registry it left to every connection
\* that is open when it returns
RosterPublished(r) ==
    \A t \in Sockets :
        r.readyState[t] = "OPEN" => Count(r.sent[t], RosterOf(r.clients)) >= 1

\* C27: a roster frame is published after every membership change: by the
\* connection handler when a new connection is admitted, by handleMessage when
\* a nickname claim succeeds, and by the close handler when a connection
\* disconnects.
C27_RosterAfterMembershipChange ==
    \A s \in Sockets :
        /\ (readyState[s] = "NONE" /\ \A t \in Sockets : t < s => readyState[t] # "NONE")
              => RosterPublished(
                     HandleNewConnection([Start EXCEPT !.readyState[s] = "OPEN"], s))
        /\ Unauthenticated(s) =>
              \A m \in NickLines :
                  ~NicknameTaken(clients, Trim(m)) =>
                      RosterPublished(HandleMessage(Start, s, m))
        /\ Live(s) => RosterPublished(Teardown(Start, s))

\* a registered session has just disconnected while another registered session
\* was open, and no roster frame was sent to anyone
C27_Witness ==
    /\ call.op = "handleDisconnection"
    /\ Has(clients, call.socket)
    /\ readyState[call.socket] = "CLOSED"
    /\ \A t \in Sockets : RosterFrames(sent[t]) = 0
    /\ \E t \in Sockets \ {call.socket} : Registered(t) /\ readyState[t] = "OPEN"

\* frame f carries one element per entry of registry cl, in the order of cl
RosterMatches(f, cl) ==
    /\ Len(f.users) = Len(cl)
    /\ \A i \in 1..Len(cl) : f.users[i].nickname = cl[i].nickname

\* C28: every roster frame a handler sent carries exactly one element per
\* session of the registry, in insertion order; and between handlers the last
\* published roster names the sessions of the registry: a handler that changes
\* the registry sends the roster of the registry it leaves to every open
\* connection as the last roster frame of that handler, and a handler that
\* leaves the registry alone sends no roster that differs from it.
C28_RosterNeverStale ==
    /\ [] ( \A t \in Sockets : \A i \in 1..Len(sent[t]) :
               sent[t][i].kind = "USERS" => RosterMatches(sent[t][i], clients) )
    /\ [][ clients' # clients =>
              \A t \in Sockets :
                  readyState'[t] = "OPEN" =>
                      \E i \in 1..Len(sent'[t]) :
                          /\ sent'[t][i].kind = "USERS"
                          /\ RosterMatches(sent'[t][i], clients') ]_vars

\* a second session has just registered under another nickname and both open
\* connections received the roster naming the two in registration order
C28_Witness ==
    /\ call.op = "handleMessage"
    /\ Len(clients) = 2
    /\ clients[2].socket = call.socket
    /\ Truthy(clients[1].nickname) /\ Truthy(clients[2].nickname)
    /\ clients[1].nickname # clients[2].nickname
    /\ \A t \in Sockets :
          readyState[t] = "OPEN" => Count(sent[t], RosterOf(clients)) = 1

\* the reply of '/lastseen' sent by registered session s in the current state
LastSeenReply(s) == ProcessChatMessage(Start, s, Nick(s), <<"/lastseen">>)

\* r is a single '/lastseen' block to s with one line per registry entry, in
\* registry order, and nothing else happened
OneLinePerEntry(r, s) ==
    /\ ~r.threw /\ StateKept(r) /\ r.logged = <<>>
    /\ \A t \in Sockets \ {s} : r.sent[t] = <<>>
    /\ Len(r.sent[s]) = 1
    /\ r.sent[s][1].kind = "Last seen:"
    /\ Len(r.sent[s][1].users) = Len(clients)
    /\ \A i \in 1..Len(clients) :
          r.sent[s][1].users[i].nickname = clients[i].nickname

RouteLines ==
    ProbeLines \cup RoutedLines \cup
    { <<"EXIT">>, <<"/MUTE", "Bob">>, <<"/lastseen", "now">>, <<"/kick">>,
      <<"/unmute">>, <<"/msg">>, <<"TYPING:", "hello">> }

\* the branch the source selects: the whole line for 'exit', then the
\* lower-cased first word
FirstWordRoute(m) ==
    IF ToLowerCase(m) = <<"exit">> THEN "exit"
    ELSE IF Command(m) \in KnownCommands THEN Command(m)
    ELSE "chat"

\* the branch the stated match rules select
StatedRoute(m) ==
    LET prefix(c) == m[1] = c /\ Len(m) >= 2
    IN  IF ToLowerCase(m) = <<"exit">> THEN "exit"
        ELSE IF m = <<"/list">> THEN "/list"
        ELSE IF ToLowerCase(m) = <<"typing:">> THEN "typing:"
        ELSE IF prefix("/admin") THEN "/admin"
        ELSE IF prefix("/kick") THEN "/kick"
        ELSE IF prefix("/mute") THEN "/mute"
        ELSE IF prefix("/unmute") THEN "/unmute"
        ELSE IF prefix("/msg") THEN "/msg"
        ELSE IF m = <<"/lastseen">> THEN "/lastseen"
        ELSE "chat"

\* what branch 'route' of the dispatcher does with line m of session s
Routed(s, route, m) ==
    CASE route = "exit" -> Close(Start, s)
      [] route = "/list" ->
            Send(Start, s,
                 Frame("Online:", Undefined, Undefined,
                       [i \in 1..Len(clients) |-> UserEntry(clients[i].nickname, "")]))
      [] route = "typing:" -> TypingCase(Start, s, Nick(s))
      [] route = "/admin" -> HandleAdminCommand(Start, s, Part(m, 1))
      [] route = "/kick" -> HandleKickCommand(Start, s, Part(m, 1))
      [] route = "/mute" -> HandleMuteCommand(Start, s, Part(m, 1))
      [] route = "/unmute" -> HandleUnmuteCommand(Start, s, Part(m, 1))
      [] route = "/msg" -> HandlePrivateMessage(Start, s, Nick(s), m)
      [] route = "/lastseen" -> HandleLastSeenCommand(Start, s)
      [] OTHER -> DefaultCase(Start, s, Nick(s), m)

\* C30, as stated: the dispatcher routes a line of a registered session by
\* whole-line equality for 'exit', 'typing:' (both case-insensitive), '/list'
\* and '/lastseen', and by the prefix with its trailing space for '/admin ',
\* '/kick ', '/mute ', '/unmute ' and '/msg '; every other line is chat.
C30_RoutedByStatedRules ==
    \A s \in Sockets :
        (Live(s) /\ Registered(s)) =>
            \A m \in RouteLines :
                ProcessChatMessage(Start, s, Nick(s), m) = Routed(s, StatedRoute(m), m)

\* C30, amended: a line that equals 'exit' case-insensitively closes the
\* connection; any other line is routed by its first space-separated word,
\* lower-cased, whatever follows it, with the command's argument undefined
\* when the word stands alone; a line whose first word is none of the eight
\* commands, the empty line included, is chat.
C30_RoutedByFirstWord ==
    [] (
    \A s \in Sockets :
        (Live(s) /\ Registered(s)) =>
            \A m \in RouteLines :
                ProcessChatMessage(Start, s, Nick(s), m) = Routed(s, FirstWordRoute(m), m)
    )

\* '/list now' from a registered session has just been answered with the list
\* of nicknames and was neither broadcast nor logged
C30_Witness ==
    /\ call.op = "processChatMessage"
    /\ call.msg = <<"/list", "now">>
    /\ StatedRoute(call.msg) = "chat"
    /\ \E t \in Sockets \ {call.socket} : Registered(t) /\ readyState[t] = "OPEN"
    /\ Len(sent[call.socket]) = 1
    /\ sent[call.socket][1].kind = "Online:"
    /\ \A t \in Sockets \ {call.socket} : sent[t] = <<>>
    /\ logged = <<>>

\* C31: a nickname can be muted while no session holds it. '/mute <name>' of
\* the admin for a name nobody holds adds the name to the mute registry; a
\* connection that then claims the name is registered under it with the name
\* still muted, and its chat lines are answered 'You are muted.' and neither
\* broadcast nor logged, from the first one on; and a name leaves the mute
\* registry only by an '/unmute <name>' or by the close handler of a
\* connection.
C31_MutedBeforeClaimed ==
    /\ [] ( \A a, s \in Sockets : \A n \in ProbeNames :
               ( /\ a = adminSocket /\ Registered(a) /\ Live(a)
                 /\ Unauthenticated(s) /\ readyState[s] = "OPEN"
                 /\ ~NicknameTaken(clients, n) ) =>
                   LET mute == ProcessChatMessage(Start, a, Nick(a), <<"/mute">> \o n)
                       claim == HandleMessage(After(mute), s, n)
                       chat1 == ProcessChatMessage(After(claim), s, n, <<"hi">>)
                       chat2 == ProcessChatMessage(After(chat1), s, n,
                                                   <<"hello", "there">>)
                   IN  /\ mute.muted = muted \cup {n}
                       /\ mute.clients = clients
                       /\ Has(claim.clients, s)
                       /\ Get(claim.clients, s).nickname = n
                       /\ Count(claim.sent[s], Text1("Welcome", n)) = 1
                       /\ n \in claim.muted
                       /\ \A c \in {chat1, chat2} :
                             /\ c.sent = OnlyTo(s, <<Text("You are muted.")>>)
                             /\ c.logged = <<>>
                             /\ c.muted = claim.muted )
    /\ [][ \A n \in muted \ muted' :
              \/ /\ call'.op = "processChatMessage"
                 /\ Command(call'.msg) = "/unmute"
                 /\ Part(call'.msg, 1) = n
              \/ call'.op = "handleDisconnection" ]_vars

\* a connection has just been welcomed under a nickname that was already in
\* the mute registry: the name was muted while nobody held it
C31_Witness ==
    /\ call.op = "handleMessage"
    /\ Registered(call.socket)
    /\ Nick(call.socket) = Trim(call.msg)
    /\ Count(sent[call.socket], Text1("Welcome", Nick(call.socket))) = 1
    /\ Nick(call.socket) \in muted
    /\ adminSocket # Null /\ adminSocket # call.socket

\* the entries of registry cl that belong to connections other than s
Others(cl, s) == SelectSeq(cl, LAMBDA e : e.socket # s)

\* the nicknames teardown of s may take out of the mute registry
OwnNames(s) == IF Has(clients, s) THEN {Nick(s)} ELSE {}

\* C32: the close handler of a connection changes only that connection's own
\* state: the registry entries of all other sessions, nicknames and order
\* included, are as before, the mute registry is as before for every nickname
\* but the departing one, the admin slot is as before when another connection
\* holds it or nobody does, and no other connection is closed.
C32_TeardownFrame ==
    [] (
    \A s \in Sockets :
        Live(s) =>
            LET r == Teardown(Start, s)
            IN  /\ Others(r.clients, s) = Others(clients, s)
                /\ r.muted \ OwnNames(s) = muted \ OwnNames(s)
                /\ adminSocket # s => r.adminSocket = adminSocket
                /\ \A t \in Sockets \ {s} : r.readyState[t] = readyState[t]
                /\ r.closeCalls = {}
    )

\* a connection has just been torn down, the handler returning normally,
\* while another connection holds a session and the admin slot and a nickname
\* is muted: all three are still in place
C32_Witness ==
    /\ call.op = "handleDisconnection"
    /\ ~threw
    /\ readyState[call.socket] = "CLOSED"
    /\ adminSocket # Null /\ adminSocket # call.socket
    /\ Registered(adminSocket)
    /\ muted # {}
    /\ \E t \in Sockets : RosterFrames(sent[t]) = 1

\* C33: a transport error on a connection force-closes that connection and
\* touches nobody else; the close handler that follows returns normally and
\* leaves no reference to the connection in the session registry, the mute
\* registry or the admin slot, and leaves every other session as it was.
C33_ErrorThenTeardown ==
    \A s \in Sockets :
        Live(s) =>
            LET e == Close(Start, s)
                r == Teardown(e, s)
            IN  /\ e.closeCalls = {s}
                /\ e.readyState[s] = "CLOSING"
                /\ e.clients = clients /\ e.muted = muted
                /\ e.adminSocket = adminSocket
                /\ \A t \in Sockets \ {s} : e.readyState[t] = readyState[t]
                /\ e.sent = NoFrames
                /\ ~r.threw
                /\ ~Has(r.clients, s)
                /\ OwnNames(s) \cap r.muted = {}
                /\ r.adminSocket # s
                /\ Others(r.clients, s) = Others(clients, s)

\* a transport error has just force-closed a registered session whose
\* nickname is muted, while another session holds the admin slot
C33_Witness ==
    /\ call.op = "error"
    /\ closeCalls = {call.socket}
    /\ readyState[call.socket] = "CLOSING"
    /\ Registered(call.socket)
    /\ Nick(call.socket) \in muted
    /\ adminSocket # Null /\ adminSocket # call.socket

\* the close handler called once more for s on the state its first run left
SecondTeardown(s) == HandleDisconnection(After(Teardown(Start, s)), s)

\* r changed nothing of the shared state
SharedStateKept(r, q) ==
    /\ r.clients = q.clients
    /\ r.muted = q.muted
    /\ r.adminSocket = q.adminSocket
    /\ r.readyState = q.readyState
    /\ r.closeCalls = {}

\* C34, as stated: a second teardown for a connection whose session is no
\* longer in the registry changes no shared state and is not user-visible: no
\* connection is sent anything, in particular no 'has left the chat.'.
C34_SecondTeardownSilent ==
    \A s \in Sockets :
        (Live(s) /\ ~Has(Teardown(Start, s).clients, s)) =>
            LET r == SecondTeardown(s)
            IN  /\ SharedStateKept(r, Teardown(Start, s))
                /\ r.sent = NoFrames

\* C34, amended: a teardown for a connection that has no session in the
\* registry, a second teardown included, changes no shared state and returns
\* normally, but is visible: every open connection is sent 'A user has left
\* the chat.' and then the roster, and 'A user disconnected.' is logged.
C34_SecondTeardownAnnounced ==
    [] (
    /\ \A s \in Sockets :
          (Live(s) /\ ~Has(Teardown(Start, s).clients, s)) =>
              LET r == SecondTeardown(s)
              IN  /\ ~r.threw
                  /\ SharedStateKept(r, Teardown(Start, s))
                  /\ \A t \in Sockets :
                        r.sent[t] =
                            IF r.readyState[t] = "OPEN"
                            THEN << Text1("has left the chat.", <<"A", "user">>),
                                    RosterOf(r.clients) >>
                            ELSE <<>>
                  /\ r.logged = << Text1("disconnected.", <<"A", "user">>) >>
    /\ \A s \in Sockets :
          (readyState[s] = "CLOSED" /\ ~Has(clients, s)) =>
              LET r == HandleDisconnection(Start, s)
              IN  /\ ~r.threw
                  /\ SharedStateKept(r, Start)
                  /\ \A t \in Sockets :
                        r.readyState[t] = "OPEN" =>
                            Count(r.sent[t],
                                  Text1("has left the chat.", <<"A", "user">>)) = 1
    )

\* the close handler has just run again for a closed connection without a
\* session, and an open registered session was sent 'A user has left the chat.'
C34_Witness ==
    /\ call.op = "handleDisconnection again"
    /\ readyState[call.socket] = "CLOSED"
    /\ ~Has(clients, call.socket)
    /\ ~threw
    /\ \E t \in Sockets :
          /\ Registered(t) /\ readyState[t] = "OPEN"
          /\ sent[t] = << Text1("has left the chat.", <<"A", "user">>),
                          RosterOf(clients) >>

\* C35: in every reachable state the admin slot is empty or refers to a
\* connection that is registered under a claimed nickname and whose close
\* handler has not run; it never refers to a connection without a nickname or
\* to one that has been torn down.
C35_AdminSlotIsLiveSession ==
    adminSocket # Null =>
        /\ Registered(adminSocket)
        /\ readyState[adminSocket] \in {"OPEN", "CLOSING"}

\* a new connection has just been admitted while the admin slot refers to a
\* connection that closed earlier and whose close handler has run
C35_Witness ==
    /\ call.op = "handleNewConnection"
    /\ adminSocket # Null
    /\ adminSocket # call.socket
    /\ readyState[adminSocket] = "CLOSED"
    /\ Has(clients, adminSocket)

\* the claim of nickname n by connection t on handler result r is refused
Refused(r, t, n) ==
    LET c == HandleMessage(After(r), t, n)
    IN  /\ c.sent = OnlyTo(t, <<Text("Nickname taken. Try another:")>>)
        /\ c.clients = r.clients

\* C36: a nickname is released by its holder's teardown and by nothing else.
\* While the holder is registered, a pending close included, a claim of its
\* nickname by another connection is answered 'Nickname taken. Try another:';
\* once the holder's close handler has run, the claim succeeds.
C36_ReleasedByTeardown ==
    \A s, t \in Sockets :
        ( /\ s # t /\ Registered(s) /\ Live(s)
          /\ Unauthenticated(t) /\ readyState[t] = "OPEN" ) =>
            LET n == Nick(s)
                closing == Close(Start, s)
                gone == Teardown(closing, s)
                claim == HandleMessage(After(gone), t, n)
            IN  /\ Refused(Start, t, n)
                /\ Refused(closing, t, n)
                /\ Has(claim.clients, t)
                /\ Get(claim.clients, t).nickname = n
                /\ Count(claim.sent[t], Text1("Welcome", n)) = 1

\* a connection has just been refused a nickname whose holder's connection
\* has closed and been torn down
C36_Witness ==
    /\ call.op = "handleMessage"
    /\ sent[call.socket] = <<Text("Nickname taken. Try another:")>>
    /\ \E s \in Sockets \ {call.socket} :
          /\ Registered(s)
          /\ Nick(s) = Trim(call.msg)
          /\ readyState[s] = "CLOSED"

\* frame f, handed to socket.send by the handler that returned r, reached the
\* peer of t: the transport transmits a frame only on a socket that is open,
\* and drops it once close() has been called on the socket
Delivered(r, t, f) == Count(r.sent[t], f) >= 1 /\ readyState[t] = "OPEN"

\* C37: whenever the sender of '/msg <target> <text>' is sent the confirmation
\* '(to <target>): <text>' and the private line is logged, the target's
\* connection has received '[Private] <sender>: <text>'; also when the
\* target's close has been requested and its close handler has not run yet.
C37_ConfirmedMeansDelivered ==
    \A s \in Sockets :
        (Registered(s) /\ readyState[s] = "OPEN") =>
            \A m \in ProbeLines :
                Command(m) = "/msg" =>
                    LET private == Text2("[Private]", Nick(s), SliceJoin(m))
                        echo == Text2("(to", Part(m, 1), SliceJoin(m))
                        target == Find(clients, Part(m, 1))
                        r == ProcessChatMessage(Start, s, Nick(s), m)
                    IN  (Count(r.sent[s], echo) >= 1 /\ Count(r.logged, private) >= 1)
                            => (target # Null /\ Delivered(r, target, private))

\* a private message has just been confirmed to its open sender and logged
\* while the target's connection had its close requested and was not open
C37_Witness ==
    /\ call.op = "processChatMessage"
    /\ Command(call.msg) = "/msg"
    /\ readyState[call.socket] = "OPEN"
    /\ Find(clients, Part(call.msg, 1)) # Null
    /\ Find(clients, Part(call.msg, 1)) # call.socket
    /\ readyState[Find(clients, Part(call.msg, 1))] = "CLOSING"
    /\ sent[call.socket] =
          << Text2("(to", Part(call.msg, 1), SliceJoin(call.msg)) >>
    /\ logged = << Text2("[Private]", Nick(call.socket), SliceJoin(call.msg)) >>

\* C38: every session in the registry has a non-empty nickname: a line that
\* is empty after trimming, sent by a connection without a nickname, neither
\* registers nor welcomes its sender, so no roster frame, '/list' reply or
\* '/lastseen' reply names an empty nickname.
C38_NoEmptyNickname ==
    /\ \A i \in 1..Len(clients) : Truthy(clients[i].nickname)
    /\ \A s \in Sockets :
          Unauthenticated(s) =>
              \A m \in NickLines :
                  ~Truthy(Trim(m)) =>
                      LET r == HandleMessage(Start, s, m)
                      IN  /\ r.clients = clients
                          /\ Count(r.sent[s], Text1("Welcome", Trim(m))) = 0
    /\ \A t \in Sockets : \A i \in 1..Len(sent[t]) :
          \A j \in 1..Len(sent[t][i].users) : Truthy(sent[t][i].users[j].nickname)

\* a connection has just sent an empty line as its first line: it is in the
\* registry under the empty nickname, was welcomed, and the roster sent to the
\* open connections names the empty nickname
C38_Witness ==
    /\ call.op = "handleMessage"
    /\ Trim(call.msg) = <<"">>
    /\ Has(clients, call.socket)
    /\ Nick(call.socket) = <<"">>
    /\ Count(sent[call.socket], Text1("Welcome", <<"">>)) = 1
    /\ \E i \in 1..Len(sent[call.socket]) :
          /\ sent[call.socket][i].kind = "USERS"
          /\ \E j \in 1..Len(sent[call.socket][i].users) :
                sent[call.socket][i].users[j].nickname = <<"">>

\* C39: a connection obtains the admin slot only by an '/admin' line whose
\* password token equals a configured admin password: whatever the server's
\* configuration, a line answered 'You are now the admin.' or leaving its
\* sender in the admin slot it did not hold carries a token, the server has
\* a password configured, and the two are equal.
C39_ElevationNeedsPassword ==
    \A s \in Sockets :
        (Registered(s) /\ Live(s)) =>
            \A m \in AdminProbeLines \cup ProbeLines :
                LET r == ProcessChatMessage(Start, s, Nick(s), m)
                IN  ( \/ r.adminSocket = s /\ adminSocket # s
                      \/ Count(r.sent[s], Text("You are now the admin.")) >= 1 )
                    => /\ Command(m) = "/admin"
                       /\ Part(m, 1) # Undefined
                       /\ ADMIN_PASSWORD # Undefined
                       /\ Part(m, 1) = ADMIN_PASSWORD

\* on a server without a configured password, a registered session has just
\* sent '/admin' with no token and holds the admin slot
C39_Witness ==
    /\ ADMIN_PASSWORD = Undefined
    /\ call.op = "processChatMessage"
    /\ call.msg = <<"/admin">>
    /\ adminSocket = call.socket
    /\ sent[call.socket] = <<Text("You are now the admin.")>>

====
